---- MODULE Spec2Model ----
(***************************************************************************)
(* The two page components of the front end, LoadFile.tsx and              *)
(* ParseFile.tsx, as one state machine.  One of the two pages is mounted   *)
(* (page); file, fileType, loadingMethod and status are the mounted        *)
(* component's useState cells of those names, the other cells belong to    *)
(* one page each.  Event handlers are actions; an async handler is split   *)
(* at its await: the part up to the fetch is one action, the continuation  *)
(* after the response is another.  A useEffect runs in the same step as    *)
(* the handler whose state change triggers it.                             *)
(*                                                                         *)
(* Text: a file name is a sequence of one-character strings; a status      *)
(* message is a sequence of string pieces, the pieces of the template      *)
(* literal that builds it ('' is the empty sequence).  The user-facing     *)
(* messages are Chinese in the source and are given ASCII stand-ins here.  *)
(***************************************************************************)
EXTENDS Integers, Sequences, FiniteSets, TLC

\* ------------------------------------------------------------------ bounds
\* How many options of a payload-only <select> (encoding, delimiter,
\* strategy) the modelled user picks from: the first MaxChoice of each list.
MaxChoice == 2
\* The value typed into a numeric chunking field.
ChunkInput == 1000
\* How many option cells of the load form (encoding, delimiter, the two
\* strategies, the chunking fields) the modelled user has off their initial
\* value at a time.
MaxOptionEdits == 2
\* How many requests the modelled user starts (load, parse, view, delete).
MaxStarted == 2
\* The longest chunks array (load) or content array (parse) in a response body.
MaxChunks == 2
\* The chunk_id values in a response body: 1..MaxChunkId, or none.
MaxChunkId == 1

\* --------------------------------------------------------------- text
UpperChars == <<"A","B","C","D","E","F","G","H","I","J","K","L","M",
                "N","O","P","Q","R","S","T","U","V","W","X","Y","Z">>
LowerChars == <<"a","b","c","d","e","f","g","h","i","j","k","l","m",
                "n","o","p","q","r","s","t","u","v","w","x","y","z">>

\* String.prototype.toLowerCase, character by character.
ToLowerCase(s) ==
    [i \in 1..Len(s) |->
        IF \E k \in 1..Len(UpperChars) : UpperChars[k] = s[i]
        THEN LowerChars[CHOOSE k \in 1..Len(UpperChars) : UpperChars[k] = s[i]]
        ELSE s[i]]

\* String.prototype.endsWith.
EndsWith(s, suffix) ==
    /\ Len(s) >= Len(suffix)
    /\ SubSeq(s, Len(s) - Len(suffix) + 1, Len(s)) = suffix

\* fileName.split('.')[0]: the text before the first '.'.
BeforeFirstDot(s) ==
    IF \E i \in 1..Len(s) : s[i] = "."
    THEN SubSeq(s, 1, (CHOOSE i \in 1..Len(s) :
                          s[i] = "." /\ \A j \in 1..(i - 1) : s[j] # ".") - 1)
    ELSE s

\* String(b) of a boolean.
BoolToString(b) == IF b THEN "true" ELSE "false"

\* JSON.stringify(v): the encoded text, kept apart from the object it encodes.
JSONstringify(v) == [json |-> v]

ExtPdf == <<".", "p", "d", "f">>
ExtTxt == <<".", "t", "x", "t">>
ExtCsv == <<".", "c", "s", "v">>
ExtMd == <<".", "m", "d">>
ExtMarkdown == <<".", "m", "a", "r", "k", "d", "o", "w", "n">>

\* The files the modelled user can pick (files[0].name).
Files ==
    { <<"a">> \o ExtPdf,
      <<"B", ".", "P", "D", "F">>,
      <<"c">> \o ExtTxt,
      <<"d">> \o ExtCsv,
      <<"e">> \o ExtMd,
      <<"f">> \o ExtMarkdown,
      <<"g", ".", "d", "o", "c", "x">> }

\* useState<File | null>(null): no file.
NoFile == <<>>

\* ------------------------------------------------------------ messages
MsgRequired == "select-all-required-options"      \* LoadFile.tsx:128, ParseFile.tsx:50
MsgLoading == "loading..."                        \* LoadFile.tsx:132
MsgLoadOk == "file-loaded!"                       \* LoadFile.tsx:169
ErrPrefix == "error: "                            \* LoadFile.tsx:175, ParseFile.tsx:82
MsgDeleteOk == "document-deleted"                 \* LoadFile.tsx:189
DeleteErrPrefix == "delete-document-error: "      \* LoadFile.tsx:197
MsgLoadingDoc == "loading-document..."            \* LoadFile.tsx:203
ViewErrPrefix == "load-document-error: "          \* LoadFile.tsx:215
MsgProcessing == "processing..."                  \* ParseFile.tsx:54
MsgParseOk == "processing-succeeded!"             \* ParseFile.tsx:78
HttpErrText == "HTTP error! status: "             \* LoadFile.tsx:164

\* The message without the status code.
HttpErrorMessage_NoCode(code) == <<HttpErrText>>

\* new Error(`HTTP error! status: ${response.status}`).message
HttpErrorMessage(code) == <<HttpErrText, ToString(code)>>

\* The message of the TypeError a failed fetch rejects with.
FetchErrors == {"Failed to fetch"}

\* ------------------------------------------------------ option lists
\* First n entries of an option list, as a set.
FirstN(opts, n) == {opts[i] : i \in 1..(IF n < Len(opts) THEN n ELSE Len(opts))}
Range(seq) == {seq[i] : i \in 1..Len(seq)}

\* LoadFile.tsx: the <option>s of the loading-method select.
LoadMethodOptions(ft, f) ==
    (IF ft = "pdf" THEN <<"pymupdf", "pypdf", "pdfplumber", "unstructured">> ELSE <<>>)
    \o (IF ft = "txt" THEN <<"basic", "unstructured">> ELSE <<>>)
    \o (IF ft = "csv" THEN <<"pandas", "csv">> ELSE <<>>)
    \o (IF ft = "md" THEN <<"basic", "unstructured">> ELSE <<>>)
    \o (IF f = NoFile THEN <<"">> ELSE <<>>)

\* LoadFile.tsx: the encoding select shown for txt/md, and the one for csv.
LoadEncodingOptions(ft) ==
    IF ft \in {"txt", "md"}
    THEN <<"utf-8", "utf-16", "gbk", "gb2312", "iso-8859-1">>
    ELSE IF ft = "csv"
    THEN <<"utf-8", "gbk", "gb2312", "iso-8859-1">>
    ELSE <<>>

\* LoadFile.tsx: the delimiter select, shown for csv.
LoadDelimiterOptions(ft) ==
    IF ft = "csv" THEN <<",", ";", "\t", "|">> ELSE <<>>

UnstructuredStrategyOptions == <<"fast", "hi_res", "ocr_only">>
ChunkingStrategyOptions == <<"basic", "by_title">>

\* LoadFile.tsx: the chunking inputs rendered under each chunking strategy.
ChunkNumberFields(cs) ==
    IF cs = "basic"
    THEN {"maxCharacters", "newAfterNChars", "combineTextUnderNChars", "overlap"}
    ELSE IF cs = "by_title" THEN {"combineTextUnderNChars"} ELSE {}
ChunkCheckboxFields(cs) ==
    IF cs = "basic" THEN {"overlapAll"}
    ELSE IF cs = "by_title" THEN {"multiPageSections"} ELSE {}

\* ParseFile.tsx: the <option>s of the loading-method select.
ParseMethodOptions(ft) ==
    (IF ft = "pdf" THEN <<"pymupdf", "pypdf", "unstructured", "pdfplumber">> ELSE <<>>)
    \o (IF ft = "markdown" THEN <<"basic">> ELSE <<>>)
    \o (IF ft = "txt" THEN <<"basic">> ELSE <<>>)

\* ParseFile.tsx renderParsingOptions.
ParsingOptions(ft) ==
    IF ft = "pdf"
    THEN <<"comprehensive", "text_only", "tables_only", "images_only",
           "by_pages", "by_titles", "text_and_tables">>
    ELSE IF ft = "markdown"
    THEN <<"comprehensive", "text_only", "tables_only">>
    ELSE <<"text_only">>

\* ------------------------------------------------ file-type inference
\* The inference without its .markdown alternative.
LoadInferType_MdOnly(name) ==
    LET fileName == ToLowerCase(name) IN
    IF EndsWith(fileName, ExtPdf) THEN "pdf"
    ELSE IF EndsWith(fileName, ExtTxt) THEN "txt"
    ELSE IF EndsWith(fileName, ExtCsv) THEN "csv"
    ELSE IF EndsWith(fileName, ExtMd) THEN "md"
    ELSE "other"

\* LoadFile.tsx handleFileChange: the type set for a file name.
LoadInferType(name) ==
    LET fileName == ToLowerCase(name) IN
    IF EndsWith(fileName, ExtPdf) THEN "pdf"
    ELSE IF EndsWith(fileName, ExtTxt) THEN "txt"
    ELSE IF EndsWith(fileName, ExtCsv) THEN "csv"
    ELSE IF EndsWith(fileName, ExtMd) \/ EndsWith(fileName, ExtMarkdown) THEN "md"
    ELSE "other"

\* LoadFile.tsx handleFileChange: the loading method it sets directly.
LoadInferMethod(name) ==
    LET fileName == ToLowerCase(name) IN
    IF EndsWith(fileName, ExtPdf) THEN "pymupdf"
    ELSE IF EndsWith(fileName, ExtTxt) THEN "basic"
    ELSE IF EndsWith(fileName, ExtCsv) THEN "pandas"
    ELSE IF EndsWith(fileName, ExtMd) \/ EndsWith(fileName, ExtMarkdown) THEN "basic"
    ELSE ""

\* LoadFile.tsx useEffect[fileType]: the loading method after the effect ran,
\* given the method lm set so far.
LoadFileTypeEffect(ft, lm) ==
    IF ft = "pdf" THEN "pymupdf"
    ELSE IF ft = "txt" \/ ft = "md" THEN "basic"
    ELSE IF ft = "csv" THEN "pandas"
    ELSE lm

\* ParseFile.tsx handleFileSelect: the type set for a file name.
ParseInferType(name) ==
    LET fileName == ToLowerCase(name) IN
    IF EndsWith(fileName, ExtPdf) THEN "pdf"
    ELSE IF EndsWith(fileName, ExtMd) \/ EndsWith(fileName, ExtMarkdown) THEN "markdown"
    ELSE IF EndsWith(fileName, ExtTxt) THEN "txt"
    ELSE "pdf"

\* The effect with its txt branch left out.
ParseFileTypeEffect_NoTxt(ft, lm) ==
    IF ft = "pdf" THEN "pymupdf"
    ELSE IF ft = "markdown" \/ ft = "md" THEN "basic"
    ELSE lm

\* The effect left out altogether.
ParseFileTypeEffect_Absent(ft, lm) == lm

\* ParseFile.tsx useEffect[fileType].
ParseFileTypeEffect(ft, lm) ==
    IF ft = "pdf" THEN "pymupdf"
    ELSE IF ft = "markdown" \/ ft = "md" THEN "basic"
    ELSE IF ft = "txt" THEN "basic"
    ELSE lm

\* ---------------------------------------------------------------- state
VARIABLES
    page,                  \* which component is mounted: "load" or "parse"
    mounted,               \* FALSE once a render of the page has thrown
    file, fileType, loadingMethod, status,
    encoding, delimiter, usePandas, unstructuredStrategy,
    chunkingStrategy, chunkingOptions,
    loadedContent, documents, activeTab, selectedDoc,
    parsingOption, extractImages, extractTables,
    parsedContent, docName, isProcessed,
    inflight,              \* the fetches awaiting their response, in issue order
    sent,                  \* the requests the last step put on the network
    serverDocs,            \* the loaded documents the API server holds
    started,               \* how many requests the user has started
    serverJson,            \* which fields the server's JSON bodies carry
    blocks,                \* the chunk / content blocks on screen
    lastStarted            \* the handler the user called last, where recorded

formVars == <<file, fileType, loadingMethod, encoding, delimiter, usePandas,
              unstructuredStrategy, chunkingStrategy, chunkingOptions,
              parsingOption, extractImages, extractTables, docName>>
loadViewVars == <<loadedContent, documents, activeTab, selectedDoc>>
parseViewVars == <<parsedContent, isProcessed>>
vars == <<page, mounted, status, formVars, loadViewVars, parseViewVars,
          inflight, sent, serverDocs, started, serverJson, blocks, lastStarted>>


\* ------------------------------------------------------------ values
\* Names of documents on the API server: one it holds when the page is
\* opened, and the one under which it stores an upload through /load.
DocNames == {"doc1", "doc2"}
StoredDocs == {"doc1"}
UploadDoc == "doc2"
\* selectedDoc === null.
NoDoc == "-"

\* loadedContent / parsedContent: null, or the payload of a response.  A
\* payload is known by the document it is the content of.
NullContent == [kind |-> "null", doc |-> NoDoc]
ContentOf(d) == [kind |-> "content", doc |-> d]
\* The payload the server returns for a parsed upload.
ParsedPayload == ContentOf("parsed")

\* documents: an array of summaries (known by name), or undefined, which is
\* what data.documents is when the response body has no such field.
DocList(names) == [defined |-> TRUE, names |-> names]
UndefinedList == [defined |-> FALSE, names |-> {}]

\* A response: still awaited ("pending"), an HTTP response with a status
\* code and a JSON body ("http"), or a rejected fetch ("failed").
Pending ==
    [state |-> "pending", code |-> 0, msg |-> "", content |-> NullContent,
     docs |-> UndefinedList]
HttpResponse(code, content, docs) ==
    [state |-> "http", code |-> code, msg |-> "", content |-> content, docs |-> docs]
FetchFailed(msg) ==
    [state |-> "failed", code |-> 0, msg |-> msg, content |-> NullContent,
     docs |-> UndefinedList]
\* response.ok
ResponseOk(resp) == resp.state = "http" /\ resp.code \in 200..299

\* A fetch awaiting its response, with what the suspended handler holds:
\* op is the handler, doc the document named in the URL, closureSelectedDoc
\* the selectedDoc of the render whose handler was called.
Fetch(op, doc, sel) ==
    [op |-> op, doc |-> doc, closureSelectedDoc |-> sel, resp |-> Pending]

\* A request on the network: method, path (in pieces) and multipart body, a
\* sequence of <<field, value>> in FormData.append order.
Request(method, path, body) == [method |-> method, path |-> path, body |-> body]
ListRequest == Request("GET", <<"/documents?type=loaded">>, <<>>)
ViewRequest(d) == Request("GET", <<"/documents/", d, ".json">>, <<>>)
DeleteRequest(d) == Request("DELETE", <<"/documents/", d>>, <<>>)

RemoveAt(seq, i) == SubSeq(seq, 1, i - 1) \o SubSeq(seq, i + 1, Len(seq))

\* The handler the user called last: its name, and the document it was
\* called for.  "none" before any call, "rejected" for a handleProcess call
\* that ended in its guard.  The calls are recorded in the behaviours that
\* start with a record, and not in those that start with NotRecorded.
Called(op, doc) == [op |-> op, doc |-> doc]
NotRecorded == Called("not-recorded", NoDoc)
Record(call) == IF lastStarted = NotRecorded THEN NotRecorded ELSE call

\* ------------------------------------------------------ response bodies
\* data.loaded_content / data.parsed_content of a body without that field.
UndefinedContent == [kind |-> "undefined", doc |-> NoDoc]
\* A chunks / content array of a body: the array it has, none because the
\* field is absent, or none because the loaded_content / parsed_content
\* around it is absent.
Present(items) == [field |-> "present", items |-> items]
AbsentField == [field |-> "absent", items |-> <<>>]
AbsentPayload == [field |-> "undefined", items |-> <<>>]
\* chunk.metadata?.chunk_id when metadata or chunk_id is absent (or is 0,
\* which chunk_id || index treats alike).
NoChunkId == 0

\* A chunks array is known by the chunk_id of each chunk, a content array by
\* the type of each block.
ChunkLists == UNION {[1..k -> 0..MaxChunkId] : k \in 0..MaxChunks}
ContentLists == {[i \in 1..k |-> "text"] : k \in 0..MaxChunks}

\* The bodies of a server that sends every field: documents in the list
\* body, and one chunk (chunk_id 1) or one content block per document.
CompleteJson ==
    [documents |-> TRUE, stored |-> Present(<<1>>), upload |-> Present(<<1>>),
     parsed |-> Present(<<"text">>)]

\* The bodies of a server that leaves fields out: documents of the list
\* body; chunks of a stored document; loaded_content of the /load body, or
\* its chunks; parsed_content of the /parse body, or its content.
JsonShapes(p) ==
    IF p = "load"
    THEN [documents : BOOLEAN,
          stored : {AbsentField} \cup {Present(c) : c \in ChunkLists},
          upload : {AbsentPayload, AbsentField} \cup {Present(c) : c \in ChunkLists},
          parsed : {CompleteJson.parsed}]
    ELSE [documents : {TRUE},
          stored : {CompleteJson.stored},
          upload : {CompleteJson.upload},
          parsed : {AbsentPayload, AbsentField} \cup {Present(c) : c \in ContentLists}]

\* loadedContent.chunks of a payload: that of the upload for the uploaded
\* document, that of a stored document otherwise.
Chunks(content) ==
    IF content.doc = UploadDoc /\ serverJson.upload # AbsentPayload
    THEN serverJson.upload
    ELSE serverJson.stored

\* ------------------------------------------------------------ rendering
\* blocks: whether the list container is on screen, the keyed children React
\* holds for it (key and item shown, in order), and how many DOM nodes of
\* earlier children are left in the container without a child owning them.
NoBlocks == [shown |-> FALSE, fibers |-> <<>>, ghosts |-> 0]

\* key={chunk.metadata?.chunk_id || index}, as the string React compares.
ChunkKey(id, pos) == IF id # NoChunkId THEN ToString(id) ELSE ToString(pos - 1)

\* loadedContent.chunks?.map(...): one keyed block per chunk, in order.
ChunkBlocks(content) ==
    LET chunks == Chunks(content).items IN
    [pos \in 1..Len(chunks) |->
        [key |-> ChunkKey(chunks[pos], pos), item |-> <<content.doc, pos>>]]

\* parsedContent.content.map((item, idx) => <div key={idx}>...).
ContentBlocks(content) ==
    [pos \in 1..Len(serverJson.parsed.items) |->
        [key |-> ToString(pos - 1), item |-> <<content.doc, pos>>]]

\* React's reconciliation of a keyed child array against the children of the
\* last render.  Children are matched in place while the keys agree.
SameKeyPrefix(old, new) ==
    LET m == IF Len(old) < Len(new) THEN Len(old) ELSE Len(new) IN
    CHOOSE p \in 0..m :
        /\ \A i \in 1..p : old[i].key = new[i].key
        /\ (p = m \/ old[p + 1].key # new[p + 1].key)

\* From the first disagreement on, the old children are looked up by key.  Of
\* old children with one key the lookup table holds the last: the others are
\* neither reused nor deleted, and their DOM nodes stay in the container.
LostFibers(old, new) ==
    LET p == SameKeyPrefix(old, new) IN
    IF p = Len(old) \/ p = Len(new)
    THEN 0
    ELSE Cardinality({i \in (p + 1)..Len(old) :
                        \E j \in (i + 1)..Len(old) : old[j].key = old[i].key})

\* The list after a render: absent with its container, mounted afresh, or
\* reconciled against the children of the render before.
Commit(prev, shown, children) ==
    IF ~shown THEN NoBlocks
    ELSE IF ~prev.shown THEN [shown |-> TRUE, fibers |-> children, ghosts |-> 0]
    ELSE [shown |-> TRUE, fibers |-> children,
          ghosts |-> prev.ghosts + LostFibers(prev.fibers, children)]

\* renderRightPanel: the chunk list is rendered on the preview tab when
\* loadedContent is truthy.  A render that throws unmounts the page.
LoadFile_render(content, tab, up) ==
    IF ~up THEN NoBlocks
    ELSE IF tab = "preview" /\ content.kind = "content"
    THEN Commit(blocks, TRUE, ChunkBlocks(content))
    ELSE NoBlocks

\* ParseFile's right panel: parsedContent.content.map throws when
\* parsedContent is truthy and has no content field.
ParseRenderThrows(content) ==
    content.kind = "content" /\ serverJson.parsed = AbsentField

\* ParseFile's right panel: the content list is rendered when parsedContent
\* is truthy.
ParseFile_render(content, up) ==
    IF ~up THEN NoBlocks
    ELSE IF content.kind = "content"
    THEN Commit(blocks, TRUE, ContentBlocks(content))
    ELSE NoBlocks

\* ----------------------------------------------------------------- Init
InitialChunkingOptions ==
    [maxCharacters |-> 4000, newAfterNChars |-> 3000,
     combineTextUnderNChars |-> 500, overlap |-> 200,
     overlapAll |-> FALSE, multiPageSections |-> FALSE]

\* The useState initial values of both components, and the fetchDocuments()
\* call of LoadFile's mount effect.
InitPage ==
    /\ page \in {"load", "parse"}
    /\ mounted = TRUE
    /\ file = NoFile
    /\ fileType = "pdf"
    /\ loadingMethod = "pymupdf"
    /\ status = <<>>
    /\ encoding = "utf-8"
    /\ delimiter = ","
    /\ usePandas = TRUE
    /\ unstructuredStrategy = "fast"
    /\ chunkingStrategy = "basic"
    /\ chunkingOptions = InitialChunkingOptions
    /\ loadedContent = NullContent
    /\ documents = DocList({})
    /\ activeTab = "preview"
    /\ selectedDoc = NoDoc
    /\ parsingOption = "comprehensive"
    /\ extractImages = TRUE
    /\ extractTables = TRUE
    /\ parsedContent = NullContent
    /\ docName = <<>>
    /\ isProcessed = FALSE
    /\ inflight = IF page = "load" THEN <<Fetch("list", NoDoc, NoDoc)>> ELSE <<>>
    /\ sent = IF page = "load" THEN <<ListRequest>> ELSE <<>>
    /\ serverDocs = StoredDocs
    /\ started = 0
    /\ blocks = NoBlocks

\* The page opened against a server that sends every field.
Init == InitPage /\ serverJson = CompleteJson /\ lastStarted = NotRecorded

\* The same, with the user's calls recorded.
InitOverlap ==
    InitPage /\ serverJson = CompleteJson /\ lastStarted = Called("none", NoDoc)

\* The page opened against a server that leaves fields out of its bodies.
InitRender ==
    InitPage /\ serverJson \in JsonShapes(page) /\ lastStarted = NotRecorded

\* ------------------------------------------------- LoadFile: the form
\* The option cells other than cell that are off their initial value.
InitialOptions ==
    [encoding |-> "utf-8", delimiter |-> ",", unstructuredStrategy |-> "fast",
     chunkingStrategy |-> "basic"]
CurrentOptions ==
    [encoding |-> encoding, delimiter |-> delimiter,
     unstructuredStrategy |-> unstructuredStrategy,
     chunkingStrategy |-> chunkingStrategy]
OptionEdits(cell) ==
    Cardinality({c \in DOMAIN InitialOptions \ {cell} :
                    CurrentOptions[c] # InitialOptions[c]})
    + Cardinality({f \in DOMAIN chunkingOptions \ {cell} :
                    chunkingOptions[f] # InitialChunkingOptions[f]})

OnLoadPage == page = "load" /\ mounted
OnParsePage == page = "parse" /\ mounted

\* handleFileChange, with the useEffect[fileType] its setFileType triggers.
LoadFile_handleFileChange(name) ==
    /\ OnLoadPage
    /\ file' = name
    /\ fileType' = LoadInferType(name)
    /\ loadingMethod' =
          IF LoadInferType(name) # fileType
          THEN LoadFileTypeEffect(LoadInferType(name), LoadInferMethod(name))
          ELSE LoadInferMethod(name)
    /\ sent' = <<>>
    /\ UNCHANGED <<page, mounted, status, encoding, delimiter, usePandas,
                   unstructuredStrategy, chunkingStrategy, chunkingOptions,
                   parsingOption, extractImages, extractTables, docName,
                   loadViewVars, parseViewVars, inflight, serverDocs, started,
                   serverJson, blocks, lastStarted>>

\* onChange of the loading-method select.
LoadFile_setLoadingMethod(m) ==
    /\ OnLoadPage
    /\ m \in Range(LoadMethodOptions(fileType, file))
    /\ loadingMethod' = m
    /\ sent' = <<>>
    /\ UNCHANGED <<page, mounted, status, file, fileType, encoding, delimiter,
                   usePandas, unstructuredStrategy, chunkingStrategy,
                   chunkingOptions, parsingOption, extractImages, extractTables,
                   docName, loadViewVars, parseViewVars, inflight, serverDocs, started,
                   serverJson, blocks, lastStarted>>

\* onChange of whichever encoding select is rendered.
LoadFile_setEncoding(e) ==
    /\ OnLoadPage
    /\ e \in FirstN(LoadEncodingOptions(fileType), MaxChoice)
    /\ OptionEdits("encoding") < MaxOptionEdits
    /\ encoding' = e
    /\ sent' = <<>>
    /\ UNCHANGED <<page, mounted, status, file, fileType, loadingMethod, delimiter,
                   usePandas, unstructuredStrategy, chunkingStrategy,
                   chunkingOptions, parsingOption, extractImages, extractTables,
                   docName, loadViewVars, parseViewVars, inflight, serverDocs, started,
                   serverJson, blocks, lastStarted>>

\* onChange of the delimiter select.
LoadFile_setDelimiter(d) ==
    /\ OnLoadPage
    /\ d \in FirstN(LoadDelimiterOptions(fileType), MaxChoice)
    /\ OptionEdits("delimiter") < MaxOptionEdits
    /\ delimiter' = d
    /\ sent' = <<>>
    /\ UNCHANGED <<page, mounted, status, file, fileType, loadingMethod, encoding,
                   usePandas, unstructuredStrategy, chunkingStrategy,
                   chunkingOptions, parsingOption, extractImages, extractTables,
                   docName, loadViewVars, parseViewVars, inflight, serverDocs, started,
                   serverJson, blocks, lastStarted>>

\* onChange of the Unstructured strategy select.
LoadFile_setUnstructuredStrategy(s) ==
    /\ OnLoadPage
    /\ loadingMethod = "unstructured"
    /\ s \in FirstN(UnstructuredStrategyOptions, MaxChoice)
    /\ OptionEdits("unstructuredStrategy") < MaxOptionEdits
    /\ unstructuredStrategy' = s
    /\ sent' = <<>>
    /\ UNCHANGED <<page, mounted, status, file, fileType, loadingMethod, encoding,
                   delimiter, usePandas, chunkingStrategy,
                   chunkingOptions, parsingOption, extractImages, extractTables,
                   docName, loadViewVars, parseViewVars, inflight, serverDocs, started,
                   serverJson, blocks, lastStarted>>

\* onChange of the chunking strategy select.
LoadFile_setChunkingStrategy(s) ==
    /\ OnLoadPage
    /\ loadingMethod = "unstructured"
    /\ s \in Range(ChunkingStrategyOptions)
    /\ OptionEdits("chunkingStrategy") < MaxOptionEdits
    /\ chunkingStrategy' = s
    /\ sent' = <<>>
    /\ UNCHANGED <<page, mounted, status, file, fileType, loadingMethod, encoding,
                   delimiter, usePandas, unstructuredStrategy,
                   chunkingOptions, parsingOption, extractImages, extractTables,
                   docName, loadViewVars, parseViewVars, inflight, serverDocs, started,
                   serverJson, blocks, lastStarted>>


\* onChange of a numeric chunking input: {...prev, [field]: parseInt(value)}.
LoadFile_setChunkingNumber(field) ==
    /\ OnLoadPage
    /\ loadingMethod = "unstructured"
    /\ field \in ChunkNumberFields(chunkingStrategy)
    /\ OptionEdits(field) < MaxOptionEdits
    /\ chunkingOptions' = [chunkingOptions EXCEPT ![field] = ChunkInput]
    /\ sent' = <<>>
    /\ UNCHANGED <<page, mounted, status, file, fileType, loadingMethod, encoding,
                   delimiter, usePandas, unstructuredStrategy, chunkingStrategy,
                   parsingOption, extractImages, extractTables,
                   docName, loadViewVars, parseViewVars, inflight, serverDocs, started,
                   serverJson, blocks, lastStarted>>

\* onChange of a chunking checkbox: {...prev, [field]: checked}.
LoadFile_setChunkingCheckbox(field) ==
    /\ OnLoadPage
    /\ loadingMethod = "unstructured"
    /\ field \in ChunkCheckboxFields(chunkingStrategy)
    /\ OptionEdits(field) < MaxOptionEdits
    /\ chunkingOptions' = [chunkingOptions EXCEPT ![field] = ~chunkingOptions[field]]
    /\ sent' = <<>>
    /\ UNCHANGED <<page, mounted, status, file, fileType, loadingMethod, encoding,
                   delimiter, usePandas, unstructuredStrategy, chunkingStrategy,
                   parsingOption, extractImages, extractTables,
                   docName, loadViewVars, parseViewVars, inflight, serverDocs, started,
                   serverJson, blocks, lastStarted>>


\* ------------------------------------------- LoadFile: handleProcess
\* The guard testing the file alone.
LoadMissingSelection_FileOnly == file = NoFile

\* The guard at the top of handleProcess: !file || !loadingMethod.
LoadMissingSelection == file = NoFile \/ loadingMethod = ""

\* The FormData with the first branch taken for any unstructured load.
LoadFormData_AnyUnstructured ==
    <<  <<"file", file>>, <<"file_type", fileType>>,
        <<"loading_method", loadingMethod>> >>
    \o (IF loadingMethod = "unstructured"
        THEN << <<"strategy", unstructuredStrategy>>,
                <<"chunking_strategy", chunkingStrategy>>,
                <<"chunking_options", JSONstringify(chunkingOptions)>> >>
        ELSE IF fileType = "txt" \/ fileType = "md"
        THEN << <<"encoding", encoding>> >>
             \o (IF chunkingStrategy # ""
                 THEN << <<"chunking_strategy", chunkingStrategy>>,
                         <<"chunking_options", JSONstringify(chunkingOptions)>> >>
                 ELSE <<>>)
        ELSE IF fileType = "csv"
        THEN << <<"delimiter", delimiter>>, <<"encoding", encoding>>,
                <<"use_pandas", BoolToString(usePandas)>> >>
        ELSE <<>>)

\* The FormData with csv sent through the text branch.
LoadFormData_CsvAsText ==
    <<  <<"file", file>>, <<"file_type", fileType>>,
        <<"loading_method", loadingMethod>> >>
    \o (IF fileType = "pdf" /\ loadingMethod = "unstructured"
        THEN << <<"strategy", unstructuredStrategy>>,
                <<"chunking_strategy", chunkingStrategy>>,
                <<"chunking_options", JSONstringify(chunkingOptions)>> >>
        ELSE IF fileType = "txt" \/ fileType = "md" \/ fileType = "csv"
        THEN << <<"encoding", encoding>> >>
             \o (IF chunkingStrategy # ""
                 THEN << <<"chunking_strategy", chunkingStrategy>>,
                         <<"chunking_options", JSONstringify(chunkingOptions)>> >>
                 ELSE <<>>)
        ELSE <<>>)

\* The FormData handleProcess builds.
LoadFormData ==
    <<  <<"file", file>>, <<"file_type", fileType>>,
        <<"loading_method", loadingMethod>> >>
    \o (IF fileType = "pdf" /\ loadingMethod = "unstructured"
        THEN << <<"strategy", unstructuredStrategy>>,
                <<"chunking_strategy", chunkingStrategy>>,
                <<"chunking_options", JSONstringify(chunkingOptions)>> >>
        ELSE IF fileType = "txt" \/ fileType = "md"
        THEN << <<"encoding", encoding>> >>
             \o (IF chunkingStrategy # ""
                 THEN << <<"chunking_strategy", chunkingStrategy>>,
                         <<"chunking_options", JSONstringify(chunkingOptions)>> >>
                 ELSE <<>>)
        ELSE IF fileType = "csv"
        THEN << <<"delimiter", delimiter>>, <<"encoding", encoding>>,
                <<"use_pandas", BoolToString(usePandas)>> >>
        ELSE <<>>)

\* The POST sent twice.
LoadRequests_Twice ==
    << Request("POST", <<"/load">>, LoadFormData),
       Request("POST", <<"/load">>, LoadFormData) >>

\* What handleProcess puts on the network once its guard has passed.
LoadRequests == << Request("POST", <<"/load">>, LoadFormData) >>

\* handleProcess up to its await fetch(...).  The handler is modelled as the
\* function it is: the button that calls it is disabled under the same
\* condition as the guard, so the guard's branch is taken only by a direct call.
LoadFile_handleProcess ==
    /\ OnLoadPage
    /\ IF LoadMissingSelection
       THEN /\ status' = <<MsgRequired>>
            /\ sent' = <<>>
            /\ lastStarted' = Record(Called("rejected", NoDoc))
            /\ UNCHANGED <<loadedContent, inflight, started>>
       ELSE /\ started < MaxStarted
            /\ started' = started + 1
            /\ status' = <<MsgLoading>>
            /\ loadedContent' = NullContent
            /\ sent' = LoadRequests
            /\ inflight' = inflight \o
                  [k \in 1..Len(LoadRequests) |-> Fetch("load", NoDoc, NoDoc)]
            /\ lastStarted' = Record(Called("load", NoDoc))
    /\ UNCHANGED <<page, mounted, formVars, documents, activeTab, selectedDoc,
                   parseViewVars, serverDocs, serverJson>>
    /\ blocks' = LoadFile_render(loadedContent', activeTab, mounted)

\* A fetchDocuments() that is never made.
FetchDocumentsCall_Skipped == [requests |-> <<>>, fetches |-> <<>>]

\* fetchDocuments up to its await fetch(...): the request it sends and the
\* fetch it then awaits.
FetchDocumentsCall ==
    [requests |-> <<ListRequest>>, fetches |-> <<Fetch("list", NoDoc, NoDoc)>>]

\* handleProcess after the await: the response of fetch i has arrived.
LoadFile_handleProcess_resume(i) ==
    /\ OnLoadPage
    /\ i \in 1..Len(inflight)
    /\ inflight[i].op = "load"
    /\ inflight[i].resp.state # "pending"
    /\ LET resp == inflight[i].resp IN
       IF resp.state = "failed"
       THEN /\ status' = <<ErrPrefix, resp.msg>>
            /\ inflight' = RemoveAt(inflight, i)
            /\ sent' = <<>>
            /\ UNCHANGED <<loadedContent, activeTab>>
       ELSE IF ~ResponseOk(resp)
       THEN /\ status' = <<ErrPrefix>> \o HttpErrorMessage(resp.code)
            /\ inflight' = RemoveAt(inflight, i)
            /\ sent' = <<>>
            /\ UNCHANGED <<loadedContent, activeTab>>
       ELSE /\ loadedContent' = resp.content
            /\ status' = <<MsgLoadOk>>
            /\ inflight' = RemoveAt(inflight, i) \o FetchDocumentsCall.fetches
            /\ sent' = FetchDocumentsCall.requests
            /\ activeTab' = "preview"
    /\ UNCHANGED <<page, mounted, formVars, documents, selectedDoc,
                   parseViewVars, serverDocs, started, serverJson, lastStarted>>
    /\ blocks' = LoadFile_render(loadedContent', activeTab', mounted)

\* fetchDocuments after the await.  There is no response.ok test: any HTTP
\* response with a JSON body reaches setDocuments(data.documents).  The page
\* then renders; documents.map throws on undefined when the list is shown.
LoadFile_fetchDocuments_resume(i) ==
    /\ OnLoadPage
    /\ i \in 1..Len(inflight)
    /\ inflight[i].op = "list"
    /\ inflight[i].resp.state # "pending"
    /\ LET resp == inflight[i].resp IN
       IF resp.state = "failed"
       THEN UNCHANGED <<documents, mounted>>
       ELSE /\ documents' = resp.docs
            /\ mounted' = (activeTab = "documents" => resp.docs.defined)
    /\ inflight' = RemoveAt(inflight, i)
    /\ sent' = <<>>
    /\ UNCHANGED <<page, status, formVars, loadedContent, activeTab, selectedDoc,
                   parseViewVars, serverDocs, started, serverJson, lastStarted>>
    /\ blocks' = LoadFile_render(loadedContent, activeTab, mounted')

\* onClick of the two tab buttons.
LoadFile_setActiveTab(tab) ==
    /\ OnLoadPage
    /\ tab \in {"preview", "documents"}
    /\ activeTab' = tab
    /\ mounted' = (tab = "documents" => documents.defined)
    /\ sent' = <<>>
    /\ UNCHANGED <<page, status, formVars, loadedContent, documents, selectedDoc,
                   parseViewVars, inflight, serverDocs, started,
                   serverJson, lastStarted>>
    /\ blocks' = LoadFile_render(loadedContent, tab, mounted')

\* The documents whose view and delete buttons are on screen.
ListedDocuments ==
    IF activeTab = "documents" /\ documents.defined THEN documents.names ELSE {}

\* handleViewDocument up to its await.
LoadFile_handleViewDocument(doc) ==
    /\ OnLoadPage
    /\ doc \in ListedDocuments
    /\ started < MaxStarted
    /\ started' = started + 1
    /\ status' = <<MsgLoadingDoc>>
    /\ inflight' = Append(inflight, Fetch("view", doc, NoDoc))
    /\ sent' = <<ViewRequest(doc)>>
    /\ lastStarted' = Record(Called("view", doc))
    /\ UNCHANGED <<page, mounted, formVars, loadViewVars, parseViewVars, serverDocs,
                   serverJson, blocks>>

\* handleViewDocument after the await, with a catch that only logs.
LoadFile_handleViewDocument_resume_SilentCatch(i) ==
    /\ OnLoadPage
    /\ i \in 1..Len(inflight)
    /\ inflight[i].op = "view"
    /\ inflight[i].resp.state # "pending"
    /\ LET resp == inflight[i].resp IN
       IF resp.state = "failed" \/ ~ResponseOk(resp)
       THEN UNCHANGED <<status, selectedDoc, loadedContent, activeTab>>
       ELSE /\ selectedDoc' = inflight[i].doc
            /\ loadedContent' = resp.content
            /\ activeTab' = "preview"
            /\ status' = <<>>
    /\ inflight' = RemoveAt(inflight, i)
    /\ sent' = <<>>
    /\ UNCHANGED <<page, mounted, formVars, documents, parseViewVars, serverDocs, started,
                   serverJson, lastStarted>>
    /\ blocks' = LoadFile_render(loadedContent', activeTab', mounted)

\* handleViewDocument after the await.
LoadFile_handleViewDocument_resume(i) ==
    /\ OnLoadPage
    /\ i \in 1..Len(inflight)
    /\ inflight[i].op = "view"
    /\ inflight[i].resp.state # "pending"
    /\ LET resp == inflight[i].resp IN
       IF resp.state = "failed"
       THEN /\ status' = <<ViewErrPrefix, resp.msg>>
            /\ UNCHANGED <<selectedDoc, loadedContent, activeTab>>
       ELSE IF ~ResponseOk(resp)
       THEN /\ status' = <<ViewErrPrefix>> \o HttpErrorMessage(resp.code)
            /\ UNCHANGED <<selectedDoc, loadedContent, activeTab>>
       ELSE /\ selectedDoc' = inflight[i].doc
            /\ loadedContent' = resp.content
            /\ activeTab' = "preview"
            /\ status' = <<>>
    /\ inflight' = RemoveAt(inflight, i)
    /\ sent' = <<>>
    /\ UNCHANGED <<page, mounted, formVars, documents, parseViewVars, serverDocs, started,
                   serverJson, lastStarted>>
    /\ blocks' = LoadFile_render(loadedContent', activeTab', mounted)

\* handleDeleteDocument up to its await.  The continuation reads selectedDoc
\* from the closure of the render in which the button was clicked.
LoadFile_handleDeleteDocument(name) ==
    /\ OnLoadPage
    /\ name \in ListedDocuments
    /\ started < MaxStarted
    /\ started' = started + 1
    /\ inflight' = Append(inflight, Fetch("delete", name, selectedDoc))
    /\ sent' = <<DeleteRequest(name)>>
    /\ lastStarted' = Record(Called("delete", name))
    /\ UNCHANGED <<page, mounted, status, formVars, loadViewVars, parseViewVars,
                   serverDocs, serverJson, blocks>>

\* Whether the continuation of handleDeleteDocument clears the preview:
\* selectedDoc?.name === docName, on the closure's selectedDoc.
DeleteClearsPreview(fetch) == fetch.closureSelectedDoc = fetch.doc

\* handleDeleteDocument after the await.
LoadFile_handleDeleteDocument_resume(i) ==
    /\ OnLoadPage
    /\ i \in 1..Len(inflight)
    /\ inflight[i].op = "delete"
    /\ inflight[i].resp.state # "pending"
    /\ LET resp == inflight[i].resp IN
       IF resp.state = "failed"
       THEN /\ status' = <<DeleteErrPrefix, resp.msg>>
            /\ inflight' = RemoveAt(inflight, i)
            /\ sent' = <<>>
            /\ UNCHANGED <<selectedDoc, loadedContent>>
       ELSE IF ~ResponseOk(resp)
       THEN /\ status' = <<DeleteErrPrefix>> \o HttpErrorMessage(resp.code)
            /\ inflight' = RemoveAt(inflight, i)
            /\ sent' = <<>>
            /\ UNCHANGED <<selectedDoc, loadedContent>>
       ELSE /\ status' = <<MsgDeleteOk>>
            /\ inflight' = RemoveAt(inflight, i) \o FetchDocumentsCall.fetches
            /\ sent' = FetchDocumentsCall.requests
            /\ IF DeleteClearsPreview(inflight[i])
               THEN selectedDoc' = NoDoc /\ loadedContent' = NullContent
               ELSE UNCHANGED <<selectedDoc, loadedContent>>
    /\ UNCHANGED <<page, mounted, formVars, documents, activeTab,
                   parseViewVars, serverDocs, started, serverJson, lastStarted>>
    /\ blocks' = LoadFile_render(loadedContent', activeTab, mounted)


\* ------------------------------------------------------------ ParseFile
\* handleFileSelect, with the useEffect[fileType] its setFileType triggers.
ParseFile_handleFileSelect(name) ==
    /\ OnParsePage
    /\ file' = name
    /\ fileType' = ParseInferType(name)
    /\ loadingMethod' =
          IF ParseInferType(name) # fileType
          THEN ParseFileTypeEffect(ParseInferType(name), loadingMethod)
          ELSE loadingMethod
    /\ docName' = BeforeFirstDot(ToLowerCase(name))
    /\ sent' = <<>>
    /\ UNCHANGED <<page, mounted, status, encoding, delimiter, usePandas,
                   unstructuredStrategy, chunkingStrategy, chunkingOptions,
                   parsingOption, extractImages, extractTables,
                   loadViewVars, parseViewVars, inflight, serverDocs, started,
                   serverJson, blocks, lastStarted>>

\* onChange of the loading-method select.
ParseFile_setLoadingMethod(m) ==
    /\ OnParsePage
    /\ m \in Range(ParseMethodOptions(fileType))
    /\ loadingMethod' = m
    /\ sent' = <<>>
    /\ UNCHANGED <<page, mounted, status, file, fileType, encoding, delimiter,
                   usePandas, unstructuredStrategy, chunkingStrategy,
                   chunkingOptions, parsingOption, extractImages, extractTables,
                   docName, loadViewVars, parseViewVars, inflight, serverDocs, started,
                   serverJson, blocks, lastStarted>>

\* onChange of the parsing-option select renderParsingOptions returns.
ParseFile_setParsingOption(o) ==
    /\ OnParsePage
    /\ o \in Range(ParsingOptions(fileType))
    /\ parsingOption' = o
    /\ sent' = <<>>
    /\ UNCHANGED <<page, mounted, status, file, fileType, loadingMethod, encoding,
                   delimiter, usePandas, unstructuredStrategy, chunkingStrategy,
                   chunkingOptions, extractImages, extractTables,
                   docName, loadViewVars, parseViewVars, inflight, serverDocs, started,
                   serverJson, blocks, lastStarted>>

\* onChange of the two extraction checkboxes, rendered for pdf and markdown.
ParseFile_setExtractImages ==
    /\ OnParsePage
    /\ fileType = "pdf" \/ fileType = "markdown"
    /\ extractImages' = ~extractImages
    /\ sent' = <<>>
    /\ UNCHANGED <<page, mounted, status, file, fileType, loadingMethod, encoding,
                   delimiter, usePandas, unstructuredStrategy, chunkingStrategy,
                   chunkingOptions, parsingOption, extractTables,
                   docName, loadViewVars, parseViewVars, inflight, serverDocs, started,
                   serverJson, blocks, lastStarted>>

ParseFile_setExtractTables ==
    /\ OnParsePage
    /\ fileType = "pdf" \/ fileType = "markdown"
    /\ extractTables' = ~extractTables
    /\ sent' = <<>>
    /\ UNCHANGED <<page, mounted, status, file, fileType, loadingMethod, encoding,
                   delimiter, usePandas, unstructuredStrategy, chunkingStrategy,
                   chunkingOptions, parsingOption, extractImages,
                   docName, loadViewVars, parseViewVars, inflight, serverDocs, started,
                   serverJson, blocks, lastStarted>>

\* The guard at the top of handleProcess: !file || !loadingMethod || !parsingOption.
ParseMissingSelection == file = NoFile \/ loadingMethod = "" \/ parsingOption = ""

\* The FormData handleProcess builds.
ParseFormData ==
    <<  <<"file", file>>, <<"loading_method", loadingMethod>>,
        <<"parsing_option", parsingOption>>, <<"file_type", fileType>>,
        <<"extract_images", BoolToString(extractImages)>>,
        <<"extract_tables", BoolToString(extractTables)>> >>

\* handleProcess up to its await fetch(...).
ParseFile_handleProcess ==
    /\ OnParsePage
    /\ IF ParseMissingSelection
       THEN /\ status' = <<MsgRequired>>
            /\ sent' = <<>>
            /\ lastStarted' = Record(Called("rejected", NoDoc))
            /\ UNCHANGED <<parsedContent, isProcessed, inflight, started>>
       ELSE /\ started < MaxStarted
            /\ started' = started + 1
            /\ status' = <<MsgProcessing>>
            /\ parsedContent' = NullContent
            /\ isProcessed' = FALSE
            /\ sent' = << Request("POST", <<"/parse">>, ParseFormData) >>
            /\ inflight' = Append(inflight, Fetch("parse", NoDoc, NoDoc))
            /\ lastStarted' = Record(Called("parse", NoDoc))
    /\ UNCHANGED <<page, mounted, formVars, loadViewVars, serverDocs, serverJson>>
    /\ blocks' = ParseFile_render(parsedContent', mounted)

\* handleProcess after the await, and the render of the state it sets.
ParseFile_handleProcess_resume(i) ==
    /\ OnParsePage
    /\ i \in 1..Len(inflight)
    /\ inflight[i].op = "parse"
    /\ inflight[i].resp.state # "pending"
    /\ LET resp == inflight[i].resp IN
       IF resp.state = "failed"
       THEN /\ status' = <<ErrPrefix, resp.msg>>
            /\ UNCHANGED <<parsedContent, isProcessed>>
       ELSE IF ~ResponseOk(resp)
       THEN /\ status' = <<ErrPrefix>> \o HttpErrorMessage(resp.code)
            /\ UNCHANGED <<parsedContent, isProcessed>>
       ELSE /\ parsedContent' = resp.content
            /\ status' = <<MsgParseOk>>
            /\ isProcessed' = TRUE
    /\ inflight' = RemoveAt(inflight, i)
    /\ sent' = <<>>
    /\ mounted' = ~ParseRenderThrows(parsedContent')
    /\ UNCHANGED <<page, formVars, loadViewVars, serverDocs, started,
                   serverJson, lastStarted>>
    /\ blocks' = ParseFile_render(parsedContent', mounted')

\* ------------------------------------------------------- the API server
\* The responses the server can give to a fetch, with the set of documents
\* it holds afterwards: a 2xx with the payload of the operation, a 404 for a
\* document it does not hold, a 500 with an error body, or no response.
ServerOutcomes(fetch) ==
    {<<FetchFailed(m), serverDocs>> : m \in FetchErrors}
    \cup {<<HttpResponse(500, NullContent, UndefinedList), serverDocs>>}
    \cup (IF fetch.op = "load"
          THEN {<<HttpResponse(200,
                               IF serverJson.upload = AbsentPayload
                               THEN UndefinedContent ELSE ContentOf(UploadDoc),
                               UndefinedList),
                  serverDocs \cup {UploadDoc}>>}
          ELSE IF fetch.op = "parse"
          THEN {<<HttpResponse(200,
                               IF serverJson.parsed = AbsentPayload
                               THEN UndefinedContent ELSE ParsedPayload,
                               UndefinedList),
                  serverDocs>>}
          ELSE IF fetch.op = "list"
          THEN {<<HttpResponse(200, NullContent,
                               IF serverJson.documents
                               THEN DocList(serverDocs) ELSE UndefinedList),
                  serverDocs>>}
          ELSE IF fetch.op = "view"
          THEN IF fetch.doc \in serverDocs
               THEN {<<HttpResponse(200, ContentOf(fetch.doc), UndefinedList), serverDocs>>}
               ELSE {<<HttpResponse(404, NullContent, UndefinedList), serverDocs>>}
          ELSE IF fetch.doc \in serverDocs
               THEN {<<HttpResponse(200, NullContent, UndefinedList),
                       serverDocs \ {fetch.doc}>>}
               ELSE {<<HttpResponse(404, NullContent, UndefinedList), serverDocs>>})

\* The server (or the network) settles the fetch in position i.
ServerRespond(i) ==
    /\ mounted
    /\ i \in 1..Len(inflight)
    /\ inflight[i].resp.state = "pending"
    /\ \E out \in ServerOutcomes(inflight[i]) :
          /\ inflight' = [inflight EXCEPT ![i].resp = out[1]]
          /\ serverDocs' = out[2]
    /\ sent' = <<>>
    /\ UNCHANGED <<page, mounted, status, formVars, loadViewVars, parseViewVars,
                   started, serverJson, blocks, lastStarted>>

\* ------------------------------------------------------- specifications
\* The positions a fetch can have in inflight: the user's requests and the
\* list fetch of the mount effect.
Positions == 1..(MaxStarted + 1)

LoadFormEdit ==
    \/ \E m \in Range(LoadMethodOptions(fileType, file)) : LoadFile_setLoadingMethod(m)
    \/ \E e \in Range(LoadEncodingOptions(fileType)) : LoadFile_setEncoding(e)
    \/ \E d \in Range(LoadDelimiterOptions(fileType)) : LoadFile_setDelimiter(d)
    \/ \E s \in Range(UnstructuredStrategyOptions) : LoadFile_setUnstructuredStrategy(s)
    \/ \E s \in Range(ChunkingStrategyOptions) : LoadFile_setChunkingStrategy(s)
    \/ \E f \in ChunkNumberFields(chunkingStrategy) : LoadFile_setChunkingNumber(f)
    \/ \E f \in ChunkCheckboxFields(chunkingStrategy) : LoadFile_setChunkingCheckbox(f)

ParseFormEdit ==
    \/ \E m \in Range(ParseMethodOptions(fileType)) : ParseFile_setLoadingMethod(m)
    \/ \E o \in Range(ParsingOptions(fileType)) : ParseFile_setParsingOption(o)
    \/ ParseFile_setExtractImages
    \/ ParseFile_setExtractTables

SelectFile ==
    \/ \E name \in Files : LoadFile_handleFileChange(name)
    \/ \E name \in Files : ParseFile_handleFileSelect(name)

Submit ==
    \/ LoadFile_handleProcess
    \/ ParseFile_handleProcess

Documents ==
    \/ \E tab \in {"preview", "documents"} : LoadFile_setActiveTab(tab)
    \/ \E doc \in DocNames : LoadFile_handleViewDocument(doc)
    \/ \E name \in DocNames : LoadFile_handleDeleteDocument(name)

Network ==
    \/ \E i \in Positions : ServerRespond(i)
    \/ \E i \in Positions : LoadFile_handleProcess_resume(i)
    \/ \E i \in Positions : LoadFile_fetchDocuments_resume(i)
    \/ \E i \in Positions : LoadFile_handleViewDocument_resume(i)
    \/ \E i \in Positions : LoadFile_handleDeleteDocument_resume(i)
    \/ \E i \in Positions : ParseFile_handleProcess_resume(i)

Next == SelectFile \/ LoadFormEdit \/ ParseFormEdit \/ Submit \/ Documents \/ Network

Spec == Init /\ [][Next]_vars

\* The forms alone: the behaviours in which no response has arrived yet.
NextForm == SelectFile \/ LoadFormEdit \/ ParseFormEdit \/ Submit
SpecForm == Init /\ [][NextForm]_vars

\* The requests and their responses: the behaviours in which the user picks
\* among two files and leaves the option controls at the values file
\* selection gives them.
NetFiles == { <<"a">> \o ExtPdf, <<"g", ".", "d", "o", "c", "x">> }
SelectNetFile ==
    \/ \E name \in NetFiles : LoadFile_handleFileChange(name)
    \/ \E name \in NetFiles : ParseFile_handleFileSelect(name)
NextNet == SelectNetFile \/ Submit \/ Documents \/ Network
SpecNet == Init /\ [][NextNet]_vars

\* The same behaviours with the user's calls recorded in lastStarted.
SpecOverlap == InitOverlap /\ [][NextNet]_vars

\* The same behaviours in which every fetch is settled and every settled
\* fetch resumes its handler: the browser runs the continuation of an await
\* once the promise has settled.
SpecNetLive == SpecNet /\ WF_vars(Network)

\* Rendering: one pdf file, no deletes, and a server whose bodies leave
\* fields out.
RenderFile == <<"a">> \o ExtPdf
RenderSelect ==
    \/ LoadFile_handleFileChange(RenderFile)
    \/ ParseFile_handleFileSelect(RenderFile)
RenderDocuments ==
    \/ \E tab \in {"preview", "documents"} : LoadFile_setActiveTab(tab)
    \/ \E doc \in DocNames : LoadFile_handleViewDocument(doc)
RenderNetwork ==
    \/ \E i \in Positions : ServerRespond(i)
    \/ \E i \in Positions : LoadFile_handleProcess_resume(i)
    \/ \E i \in Positions : LoadFile_fetchDocuments_resume(i)
    \/ \E i \in Positions : LoadFile_handleViewDocument_resume(i)
    \/ \E i \in Positions : ParseFile_handleProcess_resume(i)
NextRender == RenderSelect \/ Submit \/ RenderDocuments \/ RenderNetwork
SpecRender == InitRender /\ [][NextRender]_vars


\* ================================================================ claims
\* The value of a field of a multipart body, and the field names it has.
Field(body, name) == body[CHOOSE k \in 1..Len(body) : body[k][1] = name][2]
FieldNames(body) == {body[k][1] : k \in 1..Len(body)}
\* The requests of the last step that went to a path.
SentTo(path) == {k \in 1..Len(sent) : sent[k].path = path}
\* String.prototype.includes on a message in pieces.
Includes(message, piece) == \E k \in 1..Len(message) : message[k] = piece

\* ---------------------------------------------------------------- C1
\* C1: on both pages, a handleProcess call made while no file is selected or
\* loading_method is empty (on the parse page also while parsing_option is
\* empty) sends no request, starts no fetch and leaves a non-empty status.
C1_NoRequestWithoutSelection ==
    [][ ( \/ LoadFile_handleProcess /\ (file = NoFile \/ loadingMethod = "")
          \/ ParseFile_handleProcess
               /\ (file = NoFile \/ loadingMethod = "" \/ parsingOption = "") )
        => (sent' = <<>> /\ inflight' = inflight /\ status' # <<>>) ]_vars

\* A file of unknown type is selected, so loading_method is empty, and
\* handleProcess has answered with the message instead of a request.
C1_Witness ==
    /\ page = "load"
    /\ file # NoFile
    /\ loadingMethod = ""
    /\ status = <<MsgRequired>>
    /\ sent = <<>>
    /\ started = 0

\* ---------------------------------------------------------------- C2
\* C2: a step that changes file_type leaves loading_method at the new type's
\* default (pdf: pymupdf, txt: basic, md/markdown: basic, csv: pandas),
\* whatever it was before, on both pages.
C2_TypeChangeResetsMethod ==
    [][ fileType' # fileType =>
          /\ (fileType' = "pdf" => loadingMethod' = "pymupdf")
          /\ (fileType' = "txt" => loadingMethod' = "basic")
          /\ (fileType' \in {"md", "markdown"} => loadingMethod' = "basic")
          /\ (fileType' = "csv" => loadingMethod' = "pandas") ]_vars

\* The parse page after a change from pdf (its initial type) to txt.
C2_Witness ==
    /\ page = "parse"
    /\ fileType = "txt"
    /\ loadingMethod = "basic"

\* ---------------------------------------------------------------- C3
\* The loading methods the claim lists for each file type.
C3_LoadMethods(ft) ==
    IF ft = "pdf" THEN {"pymupdf", "pypdf", "pdfplumber", "unstructured"}
    ELSE IF ft \in {"txt", "md"} THEN {"basic", "unstructured"}
    ELSE IF ft = "csv" THEN {"pandas", "csv"}
    ELSE {}
C3_ParseMethods(ft) ==
    IF ft = "pdf" THEN {"pymupdf", "pypdf", "unstructured", "pdfplumber"}
    ELSE IF ft \in {"markdown", "txt"} THEN {"basic"}
    ELSE {}

\* C3: every request sent to /load or /parse carries a loading_method from
\* the set offered for the file_type of the same request.
C3_MethodOfferedForType ==
    /\ \A k \in SentTo(<<"/load">>) :
          Field(sent[k].body, "loading_method")
             \in C3_LoadMethods(Field(sent[k].body, "file_type"))
    /\ \A k \in SentTo(<<"/parse">>) :
          Field(sent[k].body, "loading_method")
             \in C3_ParseMethods(Field(sent[k].body, "file_type"))

\* A /parse request for a txt file: its method was reset from a pdf method.
C3_Witness ==
    \E k \in SentTo(<<"/parse">>) :
        /\ Field(sent[k].body, "file_type") = "txt"
        /\ Field(sent[k].body, "loading_method") = "basic"

\* ---------------------------------------------------------------- C4
\* The parsing options the claim lists for each file type.
C4_ParsingOptions(ft) ==
    IF ft = "pdf"
    THEN {"comprehensive", "text_only", "tables_only", "images_only",
          "by_pages", "by_titles", "text_and_tables"}
    ELSE IF ft = "markdown" THEN {"comprehensive", "text_only", "tables_only"}
    ELSE IF ft = "txt" THEN {"text_only"}
    ELSE {}

\* C4: every request sent to /parse carries a parsing_option from the set
\* allowed for the file_type of the same request.
C4_OptionAllowedForType ==
    \A k \in SentTo(<<"/parse">>) :
        Field(sent[k].body, "parsing_option")
           \in C4_ParsingOptions(Field(sent[k].body, "file_type"))


\* ---------------------------------------------------------------- C5
\* A handleProcess call of the load page whose guard passes.
LoadAccepted == LoadFile_handleProcess /\ file # NoFile /\ loadingMethod # ""
IsLoadPost(r) == r.method = "POST" /\ r.path = <<"/load">>

\* C5 as stated: an accepted load submission sends exactly one POST to /load
\* and changes none of loadedContent, status, activeTab, documents and
\* selectedDoc before the response has arrived.
C5_NoViewChangeBeforeResponse ==
    [][ LoadAccepted =>
          /\ Len(sent') = 1 /\ IsLoadPost(sent'[1])
          /\ Len(inflight') = Len(inflight) + 1
          /\ UNCHANGED <<loadedContent, status, activeTab, documents, selectedDoc>>
      ]_vars

\* C5 as amended: an accepted load submission sends exactly one POST to /load
\* and starts one fetch; at the submit action it sets status to the
\* in-progress message and clears loadedContent, and changes none of
\* activeTab, documents and selectedDoc; the step in which the server settles
\* a load fetch changes no view state at all.
C5_OnePostThenAwait ==
    [][ /\ LoadAccepted =>
            /\ Len(sent') = 1 /\ IsLoadPost(sent'[1])
            /\ Len(inflight') = Len(inflight) + 1
            /\ inflight'[Len(inflight')].op = "load"
            /\ status' = <<MsgLoading>>
            /\ loadedContent' = NullContent
            /\ UNCHANGED <<activeTab, documents, selectedDoc>>
        /\ \A i \in Positions :
             (ServerRespond(i) /\ inflight[i].op = "load") =>
                UNCHANGED <<loadedContent, status, activeTab, documents, selectedDoc>>
      ]_vars

\* A load has just been submitted from the preview of a viewed document.
C5_Witness ==
    /\ Len(sent) = 1 /\ IsLoadPost(sent[1])
    /\ status = <<MsgLoading>>
    /\ selectedDoc # NoDoc
    /\ \E i \in 1..Len(inflight) : inflight[i].op = "load"

\* ---------------------------------------------------------------- C6
BaseFields == {"file", "file_type", "loading_method"}
OptionFields(body) == FieldNames(body) \ BaseFields
C6_Unstructured == {"strategy", "chunking_strategy", "chunking_options"}
C6_Text == {{"encoding"}, {"encoding", "chunking_strategy", "chunking_options"}}
C6_Csv == {"delimiter", "encoding", "use_pandas"}

\* C6 as stated: every /load request carries file, file_type, loading_method
\* and exactly one of the three option sets ((2) with txt/md, (3) with csv),
\* never none and never fields of two.
C6_ExactlyOneOptionSet ==
    \A k \in SentTo(<<"/load">>) :
        LET body == sent[k].body
            ft == Field(body, "file_type") IN
        /\ BaseFields \subseteq FieldNames(body)
        /\ Len(body) = Cardinality(FieldNames(body))
        /\ OptionFields(body) \in {C6_Unstructured, C6_Csv} \cup C6_Text
        /\ (OptionFields(body) \in C6_Text <=> ft \in {"txt", "md"})
        /\ (OptionFields(body) = C6_Csv <=> ft = "csv")

\* C6 as amended: every /load request carries file, file_type, loading_method
\* and at most one of the three option sets ((2) with txt/md, (3) with csv);
\* it carries none exactly when file_type is pdf and loading_method is not
\* unstructured, and never fields of two.
C6_AtMostOneOptionSet ==
    \A k \in SentTo(<<"/load">>) :
        LET body == sent[k].body
            ft == Field(body, "file_type") IN
        /\ BaseFields \subseteq FieldNames(body)
        /\ Len(body) = Cardinality(FieldNames(body))
        /\ OptionFields(body) \in {C6_Unstructured, C6_Csv, {}} \cup C6_Text
        /\ (OptionFields(body) \in C6_Text <=> ft \in {"txt", "md"})
        /\ (OptionFields(body) = C6_Csv <=> ft = "csv")
        /\ (OptionFields(body) = {} <=>
               (ft = "pdf" /\ Field(body, "loading_method") # "unstructured"))

\* A /load request for a pdf read with pypdf: it carries no option field.
C6_Witness ==
    \E k \in SentTo(<<"/load">>) :
        /\ Field(sent[k].body, "file_type") = "pdf"
        /\ Field(sent[k].body, "loading_method") = "pypdf"
        /\ OptionFields(sent[k].body) = {}

\* ---------------------------------------------------------------- C7
\* C7: the option fields of a /load request with file_type csv are delimiter,
\* encoding and use_pandas, with the values selected when it is sent
\* (use_pandas as 'true' or 'false'), and no chunking or strategy field.
C7_CsvOptionFields ==
    \A k \in SentTo(<<"/load">>) :
        LET body == sent[k].body IN
        Field(body, "file_type") = "csv" =>
            /\ OptionFields(body) = {"delimiter", "encoding", "use_pandas"}
            /\ Len(body) = Cardinality(FieldNames(body))
            /\ Field(body, "delimiter") = delimiter
            /\ Field(body, "encoding") = encoding
            /\ Field(body, "use_pandas") \in {"true", "false"}
            /\ (Field(body, "use_pandas") = "true" <=> usePandas)

\* The csv upload with delimiter ';' and encoding gbk.
C7_Witness ==
    \E k \in SentTo(<<"/load">>) :
        /\ Field(sent[k].body, "file_type") = "csv"
        /\ Field(sent[k].body, "delimiter") = ";"
        /\ Field(sent[k].body, "encoding") = "gbk"

\* ---------------------------------------------------------------- C8
\* The continuation of a load or parse POST, a document view or a delete
\* runs on the fetch in position i.
Resumes(i) ==
    \/ LoadFile_handleProcess_resume(i)
    \/ ParseFile_handleProcess_resume(i)
    \/ LoadFile_handleViewDocument_resume(i)
    \/ LoadFile_handleDeleteDocument_resume(i)
IsErrorStatus(message) ==
    /\ Len(message) >= 2
    /\ message[1] \in {ErrPrefix, DeleteErrPrefix, ViewErrPrefix}
SuccessStatuses == {<<MsgLoadOk>>, <<MsgParseOk>>, <<MsgDeleteOk>>, <<>>}

\* C8: when such a request returns a non-2xx status, status becomes an error
\* message that includes the status code; when it fails in transport, an
\* error message that includes the caught error's message; either way no
\* success status is set and no content is taken from the response.
C8_ErrorStatusCarriesCause ==
    [][ \A i \in Positions :
          Resumes(i) =>
            LET resp == inflight[i].resp IN
            /\ (resp.state = "http" /\ resp.code \notin 200..299) =>
                  /\ IsErrorStatus(status')
                  /\ Includes(status', ToString(resp.code))
            /\ resp.state = "failed" =>
                  /\ IsErrorStatus(status')
                  /\ Includes(status', resp.msg)
            /\ (resp.state = "failed" \/ resp.code \notin 200..299) =>
                  /\ status' \notin SuccessStatuses
                  /\ UNCHANGED <<loadedContent, parsedContent, selectedDoc,
                                 isProcessed>>
      ]_vars

\* A delete answered 404: the document had already been deleted.
C8_Witness ==
    /\ status = <<DeleteErrPrefix>> \o <<HttpErrText, "404">>
    /\ ~(\E i \in 1..Len(inflight) : inflight[i].op = "delete")

\* ---------------------------------------------------------------- C9
\* C9: a successful delete of document D clears the preview exactly when the
\* preview shows the content of D: it clears it if it shows D, and leaves it
\* alone if it shows another document.
C9_DeleteClearsIffDisplayed ==
    [][ \A i \in Positions :
          ( /\ LoadFile_handleDeleteDocument_resume(i)
            /\ ResponseOk(inflight[i].resp)
            /\ loadedContent.kind = "content" ) =>
              IF loadedContent.doc = inflight[i].doc
              THEN loadedContent' = NullContent
              ELSE loadedContent' = loadedContent
      ]_vars

\* ---------------------------------------------------------------- C10
\* C10: a successful delete sends a GET of the document list and awaits it;
\* documents changes only in the continuation of such a GET, to the list of
\* that response; a failed delete sends nothing and leaves documents alone.
C10_ListRefetchedNotSpliced ==
    [][ /\ \A i \in Positions :
             LoadFile_handleDeleteDocument_resume(i) =>
                IF ResponseOk(inflight[i].resp)
                THEN /\ sent' = <<ListRequest>>
                     /\ Len(inflight') = Len(inflight)
                     /\ inflight'[Len(inflight')] = Fetch("list", NoDoc, NoDoc)
                     /\ documents' = documents
                ELSE /\ sent' = <<>>
                     /\ inflight' = RemoveAt(inflight, i)
                     /\ documents' = documents
        /\ documents' # documents =>
             \E i \in Positions :
                /\ LoadFile_fetchDocuments_resume(i)
                /\ inflight[i].resp.state = "http"
                /\ documents' = inflight[i].resp.docs
      ]_vars

\* The list fetched after a delete has come back without the deleted document.
C10_Witness ==
    /\ status = <<MsgDeleteOk>>
    /\ documents = DocList({})
    /\ serverDocs = {}
    /\ inflight = <<>>

\* ---------------------------------------------------------------- C11
\* C11: once every request of the load page has completed or failed, the
\* displayed documents list equals the server's set of loaded documents,
\* whatever the order in which the responses of the list GETs arrive.  Stated
\* for the case most favourable to it: the request that completes last is a
\* list GET that succeeded, and its continuation leaves nothing in flight.
C11_ListMatchesServer ==
    [][ \A i \in Positions :
          ( /\ LoadFile_fetchDocuments_resume(i)
            /\ ResponseOk(inflight[i].resp)
            /\ inflight' = <<>> )
          => documents' = DocList(serverDocs') ]_vars

\* ---------------------------------------------------------------- C12
\* The view-state variables the continuation of a handler writes, of those
\* the claim names (LoadFile.tsx:168-169, 189-193, 209-212, 93;
\* ParseFile.tsx:77-78).
C12_Writes(op) ==
    IF op = "load" THEN {"loadedContent", "status"}
    ELSE IF op = "view" THEN {"selectedDoc", "loadedContent", "status"}
    ELSE IF op = "delete" THEN {"status", "selectedDoc", "loadedContent"}
    ELSE IF op = "list" THEN {"documents"}
    ELSE {"parsedContent", "status"}

\* C12: in no reachable state are two operations in flight whose completions
\* both write the same view-state variable; in particular no two POSTs of
\* submissions are in flight at once.
C12_NoConcurrentWriters ==
    \A i, j \in 1..Len(inflight) :
        i # j => C12_Writes(inflight[i].op) \cap C12_Writes(inflight[j].op) = {}

\* ---------------------------------------------------------------- C13
\* The list on screen shows exactly the items of a payload, in order: one
\* block per item and no other block.
C13_Shows(list, doc, n) ==
    /\ list.shown
    /\ list.ghosts = 0
    /\ Len(list.fibers) = n
    /\ \A k \in 1..n : list.fibers[k].item = <<doc, k>>

\* C13: after a successful load response whose chunks array has N elements
\* the preview shows exactly N chunk blocks, the i-th showing the i-th chunk,
\* whatever the chunk_ids; after a successful parse response the page shows
\* one block per content block, in order.
C13_OneBlockPerChunk ==
    [][ \A i \in Positions :
          /\ ( /\ LoadFile_handleProcess_resume(i)
               /\ ResponseOk(inflight[i].resp)
               /\ loadedContent'.kind = "content" )
             => C13_Shows(blocks', UploadDoc, Len(Chunks(loadedContent').items))
          /\ ( /\ ParseFile_handleProcess_resume(i)
               /\ ResponseOk(inflight[i].resp)
               /\ parsedContent'.kind = "content"
               /\ mounted' )
             => C13_Shows(blocks', "parsed", Len(serverJson.parsed.items))
      ]_vars

\* ---------------------------------------------------------------- C14
\* The continuation of any request runs on the fetch in position i.
C14_Resumes(i) ==
    \/ LoadFile_handleProcess_resume(i)
    \/ LoadFile_fetchDocuments_resume(i)
    \/ LoadFile_handleViewDocument_resume(i)
    \/ ParseFile_handleProcess_resume(i)

\* C14: storing and rendering a 2xx JSON response never fails, whichever of
\* its fields (loaded_content, parsed_content, documents, chunks, content,
\* metadata) are absent: the page is still mounted after the continuation.
C14_RenderNeverFails ==
    [][ \A i \in Positions :
          (C14_Resumes(i) /\ ResponseOk(inflight[i].resp)) => mounted' ]_vars

\* ---------------------------------------------------------------- C15
\* The extension of a file name: the text from its last '.' on, in lower
\* case; the empty text when the name has no '.'.
C15_Extension(name) ==
    LET n == ToLowerCase(name)
        dots == {i \in 1..Len(n) : n[i] = "."} IN
    IF dots = {} THEN <<>>
    ELSE SubSeq(n, CHOOSE i \in dots : \A j \in dots : j <= i, Len(n))

\* The table of the claim: .pdf -> pdf, .txt -> txt, .csv -> csv,
\* .md or .markdown -> md, anything else -> other.
C15_ClaimedType(name) ==
    LET ext == C15_Extension(name) IN
    IF ext = <<".", "p", "d", "f">> THEN "pdf"
    ELSE IF ext = <<".", "t", "x", "t">> THEN "txt"
    ELSE IF ext = <<".", "c", "s", "v">> THEN "csv"
    ELSE IF ext \in {<<".", "m", "d">>, <<".", "m", "a", "r", "k", "d", "o", "w", "n">>}
    THEN "md"
    ELSE "other"

\* The table of the parse page: .pdf -> pdf, .md or .markdown -> markdown,
\* .txt -> txt, anything else -> pdf.
C15_ParsePageType(name) ==
    LET ext == C15_Extension(name) IN
    IF ext = <<".", "t", "x", "t">> THEN "txt"
    ELSE IF ext \in {<<".", "m", "d">>, <<".", "m", "a", "r", "k", "d", "o", "w", "n">>}
    THEN "markdown"
    ELSE "pdf"

\* C15 as stated: on both pages, whatever was selected before, file_type is
\* the type the claim's table gives for the name of the selected file.
C15_TypeByExtension ==
    file # NoFile => fileType = C15_ClaimedType(file)

\* C15 as amended: file_type is a function of the name of the selected file
\* alone, by case-insensitive extension match; on the load page by the
\* claim's table, on the parse page by .pdf -> pdf, .md or .markdown ->
\* markdown, .txt -> txt, anything else -> pdf.
C15_TypeByExtensionPerPage ==
    file # NoFile =>
        fileType = IF page = "load" THEN C15_ClaimedType(file)
                   ELSE C15_ParsePageType(file)

\* The parse page after a file with an extension it does not know was
\* selected, the parsing option having been changed before.
C15_Witness ==
    /\ page = "parse"
    /\ file = <<"g", ".", "d", "o", "c", "x">>
    /\ fileType = "pdf"
    /\ parsingOption # "comprehensive"

\* ---------------------------------------------------------------- C16
\* The response is a failure: a transport error or a non-2xx status.
C16_Failed(resp) == resp.state = "failed" \/ ~ResponseOk(resp)

\* C16: the continuation of a list GET, a document view or a delete that
\* failed leaves documents, selectedDoc, loadedContent and activeTab as they
\* are; that of a failed list GET leaves status and the page as they are too.
C16_FailureChangesOnlyStatus ==
    [][ \A i \in Positions :
          /\ ( /\ \/ LoadFile_fetchDocuments_resume(i)
                  \/ LoadFile_handleViewDocument_resume(i)
                  \/ LoadFile_handleDeleteDocument_resume(i)
               /\ C16_Failed(inflight[i].resp) )
             => UNCHANGED <<documents, selectedDoc, loadedContent, activeTab>>
          /\ ( /\ LoadFile_fetchDocuments_resume(i)
               /\ C16_Failed(inflight[i].resp) )
             => UNCHANGED <<status, mounted>>
      ]_vars

\* ---------------------------------------------------------------- C17
\* No submission, view or delete is waiting for its response.
C17_AllCompleted ==
    \A i \in 1..Len(inflight) : inflight[i].op = "list"

\* The status is one that handleDeleteDocument writes.
C17_DeleteStatus ==
    \/ status = <<MsgDeleteOk>>
    \/ Len(status) > 0 /\ status[1] = DeleteErrPrefix

\* The status and the preview are those the call leaves when it completes.
C17_ResultOf(call) ==
    IF call.op = "load"
    THEN \/ status = <<MsgLoadOk>> /\ loadedContent = ContentOf(UploadDoc)
         \/ Len(status) > 0 /\ status[1] = ErrPrefix
    ELSE IF call.op = "view"
    THEN \/ /\ status = <<>>
            /\ loadedContent = ContentOf(call.doc)
            /\ selectedDoc = call.doc
         \/ Len(status) > 0 /\ status[1] = ViewErrPrefix
    ELSE \/ status = <<MsgParseOk>> /\ parsedContent = ParsedPayload
         \/ Len(status) > 0 /\ status[1] = ErrPrefix

\* C17: once every submission and view has completed, the status and the
\* preview are those of the submission or view the user started last,
\* whatever the order of the responses (deletes set aside: the claim is
\* about submissions and views).
C17_LastStartedWins ==
    ( /\ lastStarted.op \in {"load", "view", "parse"}
      /\ C17_AllCompleted
      /\ ~C17_DeleteStatus )
    => C17_ResultOf(lastStarted)

\* ---------------------------------------------------------------- C18
\* The encodings the select rendered for a file type offers.
C18_Offered(ft) ==
    {LoadEncodingOptions(ft)[k] : k \in 1..Len(LoadEncodingOptions(ft))}

\* C18: the encoding of a /load request with file_type csv, txt or md is one
\* of the options of the encoding select rendered for that file type.
C18_EncodingOfferedForType ==
    \A k \in SentTo(<<"/load">>) :
        LET body == sent[k].body IN
        Field(body, "file_type") \in {"csv", "txt", "md"} =>
            Field(body, "encoding") \in C18_Offered(Field(body, "file_type"))

\* ---------------------------------------------------------------- C19
\* The status the page shows: {status && <div>{status}</div>}, and nothing
\* once a render has thrown and React has unmounted the page.
StatusShown == IF mounted THEN status ELSE <<>>

\* The in-progress messages.
C19_InProgress == {<<MsgLoading>>, <<MsgLoadingDoc>>, <<MsgProcessing>>}

\* C19: when every request completes or fails and its continuation runs, an
\* in-progress status on the page is always eventually replaced, and in every
\* state with no request in flight the status shown is not an in-progress
\* message.
C19_InProgressIsReplaced ==
    /\ [](inflight = <<>> => StatusShown \notin C19_InProgress)
    /\ \A s \in C19_InProgress :
          (StatusShown = s) ~> (StatusShown \notin C19_InProgress)

\* Two operations were started, the second a view whose response has
\* replaced '加载文档...' by the empty status, and nothing is in flight.
C19_Witness ==
    /\ mounted
    /\ inflight = <<>>
    /\ started = MaxStarted
    /\ selectedDoc # NoDoc
    /\ StatusShown = <<>>

====
